---- MODULE Spec2Model ----
(***************************************************************************)
(* The asynchronous video-generation orchestrator of the backend:          *)
(* VideoGenerationService (processVideoGeneration, pollForCompletion,      *)
(* checkVideoInBucket, handleSuccessfulGeneration, cleanupTemporaryImage,  *)
(* checkAndCompleteStuckVideos, forceCompletionCheck), the Video model's   *)
(* updateStatus, and VideoController.createVideo's persist-and-dispatch.   *)
(*                                                                         *)
(* Every process (one background task per job, the sweep, the force check) *)
(* works on its own in-memory copy of the job document, loaded by          *)
(* Video.findById / Video.find.  A save persists the fields the process    *)
(* assigned on its copy; nothing in the code re-reads the record or makes  *)
(* the write conditional on the stored status.  Every await is a point     *)
(* where the other processes may run.                                      *)
(***************************************************************************)
EXTENDS Integers, Sequences, FiniteSets, TLC

----------------------------------------------------------------------------
(* Bounds of the model *)

NJobs == 2
MaxSubmissions == 1
MaxRequests == 1
MaxAttempts == 2
MaxTime == 1
MaxObjects == 2
MaxConfigFields == 2

(* Program constant: the validity window of a signed URL, in days *)
UrlTTL == 7

(* Processes: the background task of job j is process j; the recovery     *)
(* requests (a sweep or a force check each) are the processes after them   *)
Jobs == 1..NJobs
Reqs == (NJobs + 1)..(NJobs + MaxRequests)
Procs == Jobs \cup Reqs
ObjIds == 1..MaxObjects
Times == 0..MaxTime

(* Absent values: an unset string, an unset Date, an unset location *)
Null == "null"
NoTime == -1
NoLoc == 0
NoUrl == <<>>

(* file.getSignedUrl({action: 'read', expires}) *)
SignedUrl(loc, expires) == <<loc, expires>>

MsgTimedOut == "Operation timed out"
MsgPollThrown == "Video generation timed out"
MsgNoUri == "No video URI in response"
MsgStorage == "storage error"
MsgSubmit == "Video generation failed: transport"
MsgProviderDefault == "Video generation failed"
MsgNotFound == "No document found"
ProviderMessages == {"X", ""}

VARIABLES
    db,          \* the videos collection: job id -> stored record
    objects,     \* the bucket's objects under generated-videos/
    images,      \* the jobs whose transient input image is in storage
    cleanups,    \* per job, the calls of cleanupTemporaryImage made for it
    now,         \* the clock that new Date() / Date.now() read
    pc,          \* per process, the await it is suspended at
    cur,         \* per process, the job it is working on
    doc,         \* per process, its in-memory copy of the job document
    uri,         \* per process, the videoUri of the status it hands over
    err,         \* per process, the message of the error in flight
    attempts,    \* per task, pollForCompletion's local counter
    mode,        \* per request, "sweep" or "force" once it is issued
    todo,        \* per sweep, its processingVideos not yet visited
    tally,       \* per sweep, its completedCount and totalProcessing
    result,      \* per request, what it returned
    seen,        \* history: per sweep, the jobs that had a matching bucket
                 \* object when the sweep came to them
    bucket,      \* whether the module-level storage bucket was initialised
    sent         \* per task, the parameters of the request generateVideo built

vars == <<db, objects, images, cleanups, now, pc, cur, doc, uri, err,
          attempts, mode, todo, tally, result, seen, bucket, sent>>

----------------------------------------------------------------------------
(* The Video schema: the fields of a record the orchestrator reads/writes *)

(* the users of the service; a job's user is the one who submitted it *)
Users == {"u1", "u2"}

(* an unset Number *)
NoNumber == -1

(* a field the request does not carry *)
Absent == "absent"

ConfigFields == {"movement", "camera", "style", "lighting", "colorTone"}

(* a string, a number that a JavaScript condition takes as true *)
Truthy(v) == v # Absent /\ v # ""
TruthyNumber(n) == n # NoNumber /\ n # 0

(* videoData.parameters when the request gives none: the controller's      *)
(* fallbacks (absent seed: null)                                           *)
DefaultParameters ==
    [aspectRatio |-> "16:9", durationSeconds |-> 15, sampleCount |-> 1,
     seed |-> NoNumber, movement |-> "medium", camera |-> "static",
     style |-> "cinematic", lighting |-> "natural", colorTone |-> "neutral"]

NoRecord ==
    [exists |-> FALSE, status |-> "pending", startedAt |-> NoTime,
     completedAt |-> NoTime, errorMessage |-> Null, gcsUri |-> NoLoc,
     url |-> NoUrl, urlExpiry |-> NoTime, opName |-> Null, opDone |-> FALSE,
     opError |-> Null, hasImage |-> FALSE, user |-> "u1", isPrivate |-> TRUE,
     views |-> 0, parameters |-> DefaultParameters, title |-> "t0",
     prompt |-> "p0", videoType |-> "text-to-video"]

(* new Video(videoData): schema defaults, status 'pending'; inputImage is  *)
(* set for an image-to-video request                                       *)
NewVideo(img) ==
    [NoRecord EXCEPT !.exists = TRUE, !.hasImage = img,
                     !.videoType = IF img THEN "image-to-video" ELSE @]

(* The paths of a loaded document that the orchestrator reads or assigns *)
Load(r) ==
    [status |-> r.status, startedAt |-> r.startedAt,
     errorMessage |-> r.errorMessage, opName |-> r.opName,
     hasImage |-> r.hasImage, parameters |-> r.parameters, video |-> <<>>]

NoDoc == Load(NoRecord)

(* operation: the paths the schema declares. A key that the schema does    *)
(* not declare is not a path of the document: reading operation.name       *)
(* yields the value stored under the key "name" and nothing else.          *)
SchemaOperation(obj, old) ==
    [name  |-> IF "name" \in DOMAIN obj THEN obj.name ELSE old.opName,
     done  |-> IF "done" \in DOMAIN obj THEN obj.done ELSE old.opDone,
     error |-> IF "error" \in DOMAIN obj THEN obj.error ELSE old.opError]

(* generateVideo's return value: the handle is under operationName *)
GenerateVideoResult(handle) ==
    [operationName |-> handle, done |-> FALSE]

(* the values of videoGenerationConfig that generateVideo leaves out *)
OmittedConfig ==
    [movement |-> "medium", camera |-> "static", style |-> "cinematic",
     lighting |-> "natural", colorTone |-> "neutral"]

(* no request built yet *)
NoRequest == [keys |-> {}, config |-> {}, seed |-> NoNumber]

(* a request that carries every field of videoGenerationConfig *)
GenerateParametersFull(prm) ==
    [keys |-> {"aspectRatio", "durationSeconds", "sampleCount",
               "storageUri", "enhancePrompt", "videoGenerationConfig"}
              \cup (IF TruthyNumber(prm.seed) THEN {"seed"} ELSE {}),
     config |-> ConfigFields,
     seed |-> IF TruthyNumber(prm.seed) THEN prm.seed ELSE NoNumber]

(* generateVideo's parameters: the keys of the object, the keys of its     *)
(* videoGenerationConfig, and the seed it carries                          *)
GenerateParameters(prm) ==
    [keys |-> {"aspectRatio", "durationSeconds", "sampleCount",
               "storageUri", "enhancePrompt", "videoGenerationConfig"}
              \cup (IF TruthyNumber(prm.seed) THEN {"seed"} ELSE {}),
     config |-> {f \in ConfigFields :
                   Truthy(prm[f]) /\ prm[f] # OmittedConfig[f]},
     seed |-> IF TruthyNumber(prm.seed) THEN prm.seed ELSE NoNumber]

(* Document.set + save: a path is written when the assigned value differs  *)
(* from the one the in-memory copy holds.                                  *)
Assign(stored, held, value) == IF value = held THEN stored ELSE value

(* an updateStatus that stamps startedAt on every call *)
updateStatusRestamping(r, d, status, msg, t) ==
    [r EXCEPT
       !.status = Assign(r.status, d.status, status),
       !.startedAt = t,
       !.completedAt = IF status = "completed" THEN t ELSE r.completedAt,
       !.errorMessage = IF status = "failed"
                        THEN Assign(r.errorMessage, d.errorMessage, msg)
                        ELSE r.errorMessage]

(* videoSchema.methods.updateStatus applied by a process holding copy d of *)
(* stored record r: the stored record after this.save()                    *)
updateStatus(r, d, status, msg, t) ==
    [r EXCEPT
       !.status = Assign(r.status, d.status, status),
       !.startedAt = IF status = "processing" /\ d.startedAt = NoTime
                     THEN t ELSE r.startedAt,
       !.completedAt = IF status = "completed" THEN t ELSE r.completedAt,
       !.errorMessage = IF status = "failed"
                        THEN Assign(r.errorMessage, d.errorMessage, msg)
                        ELSE r.errorMessage]

(* the same call seen on the in-memory copy *)
updateStatusDoc(d, status, msg, t) ==
    [d EXCEPT
       !.status = status,
       !.startedAt = IF status = "processing" /\ d.startedAt = NoTime
                     THEN t ELSE d.startedAt,
       !.errorMessage = IF status = "failed" THEN msg ELSE d.errorMessage]

----------------------------------------------------------------------------
(* checkVideoInBucket *)

(* bucket.getFiles lists by object name *)
Listing ==
    LET RECURSIVE Sorted(_)
        Sorted(S) == IF S = {} THEN <<>>
                     ELSE LET m == CHOOSE o \in S : \A p \in S : o.id <= p.id
                          IN <<m>> \o Sorted(S \ {m})
    IN Sorted(objects)

(* score = 1 / (timeDiff + 1); a score is kept as its denominator, 0 for   *)
(* the initial bestMatchScore = 0                                          *)
ScoreGreater(den, bestDen) == bestDen = 0 \/ den < bestDen

(* the scan with the comparison of scores turned round *)
RECURSIVE ScanFilesFarthest(_, _, _, _)
ScanFilesFarthest(files, start, best, bestDen) ==
    IF files = <<>> THEN best
    ELSE LET file == Head(files)
             timeDiff == IF file.t >= start THEN file.t - start
                         ELSE start - file.t
             take == file.video /\ file.t >= start
                     /\ (bestDen = 0 \/ timeDiff + 1 > bestDen)
         IN ScanFilesFarthest(Tail(files), start,
                              IF take THEN file.id ELSE best,
                              IF take THEN timeDiff + 1 ELSE bestDen)

RECURSIVE ScanFiles(_, _, _, _)
ScanFiles(files, start, best, bestDen) ==
    IF files = <<>> THEN best
    ELSE LET file == Head(files)
             timeDiff == IF file.t >= start THEN file.t - start
                         ELSE start - file.t
             take == file.video /\ file.t >= start
                     /\ ScoreGreater(timeDiff + 1, bestDen)
         IN ScanFiles(Tail(files), start,
                      IF take THEN file.id ELSE best,
                      IF take THEN timeDiff + 1 ELSE bestDen)

(* a scan that does not look at whether the job has started *)
checkVideoInBucketUnstarted(j) ==
    IF ~bucket \/ ~db[j].exists THEN NoLoc
    ELSE ScanFiles(Listing, db[j].startedAt, NoLoc, 0)

(* the location returned for job j, NoLoc for null *)
checkVideoInBucket(j) ==
    IF ~bucket \/ ~db[j].exists \/ db[j].startedAt = NoTime THEN NoLoc
    ELSE ScanFiles(Listing, db[j].startedAt, NoLoc, 0)

----------------------------------------------------------------------------
NoTally == [completedCount |-> 0, totalProcessing |-> 0]
NoResult == [none |-> TRUE]

store == <<db, objects, images, cleanups, now>>
local == <<doc, uri, err>>
reqs == <<mode, todo, tally, result, seen>>

(* a process lets go of its copy, its status payload and its caught error *)
Drop(p) ==
    /\ doc' = [doc EXCEPT ![p] = NoDoc]
    /\ uri' = [uri EXCEPT ![p] = NoLoc]
    /\ err' = [err EXCEPT ![p] = Null]

Init ==
    /\ db = [j \in Jobs |-> NoRecord]
    /\ objects = {}
    /\ images = {}
    /\ cleanups = [j \in Jobs |-> 0]
    /\ now = 0
    /\ pc = [p \in Procs |-> "idle"]
    /\ cur = [p \in Procs |-> IF p \in Jobs THEN p ELSE 1]
    /\ doc = [p \in Procs |-> NoDoc]
    /\ uri = [p \in Procs |-> NoLoc]
    /\ err = [p \in Procs |-> Null]
    /\ attempts = [j \in Jobs |-> 0]
    /\ mode = [p \in Reqs |-> "none"]
    /\ todo = [p \in Reqs |-> <<>>]
    /\ tally = [p \in Reqs |-> NoTally]
    /\ result = [p \in Reqs |-> NoResult]
    /\ seen = [p \in Reqs |-> {}]
    /\ bucket = TRUE
    /\ sent = [j \in Jobs |-> NoRequest]

----------------------------------------------------------------------------
(* VideoController.createVideo, after validation: persist the record and   *)
(* dispatch processVideoGeneration in the background                       *)
CreateVideo(j, img) ==
    /\ pc[j] = "idle"
    /\ ~db[j].exists
    /\ Cardinality({k \in Jobs : db[k].exists}) < MaxSubmissions
    /\ db' = [db EXCEPT ![j] = NewVideo(img)]
    /\ images' = IF img THEN images \cup {j} ELSE images
    /\ pc' = [pc EXCEPT ![j] = "pvg_start"]
    /\ UNCHANGED <<objects, cleanups, now, cur, local, attempts, reqs>>
    /\ UNCHANGED <<bucket, sent>>

(* processVideoGeneration: findById, then updateStatus('processing') *)
ProcessStart(j) ==
    /\ pc[j] = "pvg_start"
    /\ IF ~db[j].exists
       THEN /\ err' = [err EXCEPT ![j] = "Video not found"]
            /\ pc' = [pc EXCEPT ![j] = "pvg_catch"]
            /\ UNCHANGED <<db, doc>>
       ELSE /\ db' = [db EXCEPT ![j] =
                        updateStatus(@, Load(@), "processing", Null, now)]
            /\ doc' = [doc EXCEPT ![j] =
                        updateStatusDoc(Load(db[j]), "processing", Null, now)]
            /\ pc' = [pc EXCEPT ![j] = "pvg_gen"]
            /\ UNCHANGED err
    /\ UNCHANGED <<objects, images, cleanups, now, cur, uri, attempts, reqs>>
    /\ UNCHANGED <<bucket, sent>>

(* processVideoGeneration: generateVideo, video.operation = operation,     *)
(* video.save(), then pollForCompletion(videoId) with attempts = 0; a      *)
(* failed submission is thrown to processVideoGeneration's catch           *)
(* a failed submission going on to pollForCompletion *)
GenerateThenPoll(j) ==
    /\ pc[j] = "pvg_gen"
    /\ \E accepted \in BOOLEAN :
         IF accepted /\ ~db[j].exists
         THEN /\ err' = [err EXCEPT ![j] = MsgNotFound]
              /\ doc' = [doc EXCEPT ![j] = NoDoc]
              /\ pc' = [pc EXCEPT ![j] = "pvg_catch"]
              /\ UNCHANGED <<db, uri, attempts>>
         ELSE IF accepted
         THEN LET op == SchemaOperation(GenerateVideoResult("op"), db[j])
              IN /\ db' = [db EXCEPT ![j].opName = op.name,
                                     ![j].opDone = op.done,
                                     ![j].opError = op.error]
                 /\ attempts' = [attempts EXCEPT ![j] = 0]
                 /\ pc' = [pc EXCEPT ![j] = "poll_find"]
                 /\ Drop(j)
         ELSE /\ err' = [err EXCEPT ![j] = MsgSubmit]
              /\ doc' = [doc EXCEPT ![j] = NoDoc]
              /\ pc' = [pc EXCEPT ![j] = "poll_find"]
              /\ UNCHANGED <<db, uri, attempts>>
    /\ UNCHANGED <<objects, images, cleanups, now, cur, reqs>>
    /\ sent' = [sent EXCEPT ![j] = GenerateParameters(doc[j].parameters)]
    /\ UNCHANGED bucket

Generate(j) ==
    /\ pc[j] = "pvg_gen"
    /\ \E accepted \in BOOLEAN :
         IF accepted /\ ~db[j].exists
         THEN /\ err' = [err EXCEPT ![j] = MsgNotFound]
              /\ doc' = [doc EXCEPT ![j] = NoDoc]
              /\ pc' = [pc EXCEPT ![j] = "pvg_catch"]
              /\ UNCHANGED <<db, uri, attempts>>
         ELSE IF accepted
         THEN LET op == SchemaOperation(GenerateVideoResult("op"), db[j])
              IN /\ db' = [db EXCEPT ![j].opName = op.name,
                                     ![j].opDone = op.done,
                                     ![j].opError = op.error]
                 /\ attempts' = [attempts EXCEPT ![j] = 0]
                 /\ pc' = [pc EXCEPT ![j] = "poll_find"]
                 /\ Drop(j)
         ELSE /\ err' = [err EXCEPT ![j] = MsgSubmit]
              /\ doc' = [doc EXCEPT ![j] = NoDoc]
              /\ pc' = [pc EXCEPT ![j] = "pvg_catch"]
              /\ UNCHANGED <<db, uri, attempts>>
    /\ UNCHANGED <<objects, images, cleanups, now, cur, reqs>>
    /\ sent' = [sent EXCEPT ![j] = GenerateParameters(doc[j].parameters)]
    /\ UNCHANGED bucket

----------------------------------------------------------------------------
(* pollForCompletion *)

(* what checkOperationStatus can return: the done flag, the error payload  *)
(* and the output location of the response (NoLoc: no videoUri in it)      *)
StatusReplies ==
    {[done |-> FALSE, error |-> Null, videoUri |-> NoLoc]}
    \cup {[done |-> TRUE, error |-> m, videoUri |-> NoLoc] :
             m \in ProviderMessages}
    \cup {[done |-> TRUE, error |-> Null, videoUri |-> l] :
             l \in {NoLoc} \cup ObjIds}

(* operationStatus.error.message || 'Video generation failed' *)
ProviderErrorMessage(m) == IF m = "" THEN MsgProviderDefault ELSE m

(* the loop condition and the findById that opens an iteration *)
PollFind(j) ==
    /\ pc[j] = "poll_find"
    /\ IF attempts[j] >= MaxAttempts
       THEN /\ pc' = [pc EXCEPT ![j] = "done"]
            /\ UNCHANGED local
       ELSE IF ~db[j].exists
       THEN /\ pc' = [pc EXCEPT ![j] = "poll_catch"]
            /\ UNCHANGED local
       ELSE /\ doc' = [doc EXCEPT ![j] = Load(db[j])]
            /\ pc' = [pc EXCEPT ![j] =
                        IF db[j].opName # Null THEN "poll_query"
                        ELSE "poll_bucket"]
            /\ UNCHANGED <<uri, err>>
    /\ UNCHANGED <<store, cur, attempts, reqs>>
    /\ UNCHANGED <<bucket, sent>>

(* the reply assigned to video.operation as it is, without the spread of   *)
(* the stored operation                                                    *)
PollQueryReplacing(j) ==
    /\ pc[j] = "poll_query"
    /\ \E thrown \in BOOLEAN, st \in StatusReplies :
         IF thrown
         THEN /\ pc' = [pc EXCEPT ![j] = "poll_bucket"]
              /\ UNCHANGED <<db, local>>
         ELSE LET op == SchemaOperation(
                          [name |-> doc[j].opName, done |-> st.done,
                           error |-> st.error], db[j])
                  merged == [db[j] EXCEPT
                               !.opName = Assign(@, doc[j].opName, Null),
                               !.opDone = op.done, !.opError = op.error]
                  msg == ProviderErrorMessage(st.error)
              IN IF st.done /\ st.error # Null
                 THEN /\ db' = [db EXCEPT ![j] =
                                 IF @.exists
                                 THEN updateStatus(merged, doc[j], "failed",
                                                   msg, now)
                                 ELSE @]
                      /\ pc' = [pc EXCEPT ![j] = "poll_catch"]
                      /\ Drop(j)
                 ELSE IF st.done
                 THEN /\ db' = [db EXCEPT ![j] =
                                 IF @.exists THEN merged ELSE @]
                      /\ uri' = [uri EXCEPT ![j] = st.videoUri]
                      /\ pc' = [pc EXCEPT ![j] = "hsg_storage"]
                      /\ UNCHANGED <<doc, err>>
                 ELSE /\ db' = [db EXCEPT ![j] =
                                 IF @.exists THEN merged ELSE @]
                      /\ pc' = [pc EXCEPT ![j] = "poll_bucket"]
                      /\ UNCHANGED local
    /\ UNCHANGED <<objects, images, cleanups, now, cur, attempts, reqs>>
    /\ UNCHANGED <<bucket, sent>>

(* the status query of an iteration (video.operation.name is set), the     *)
(* merge of the reply into video.operation, and the branch on done         *)
PollQuery(j) ==
    /\ pc[j] = "poll_query"
    /\ \E thrown \in BOOLEAN, st \in StatusReplies :
         IF thrown
         THEN /\ pc' = [pc EXCEPT ![j] = "poll_bucket"]
              /\ UNCHANGED <<db, local>>
         ELSE LET op == SchemaOperation(
                          [name |-> doc[j].opName, done |-> st.done,
                           error |-> st.error], db[j])
                  merged == [db[j] EXCEPT
                               !.opName = Assign(@, doc[j].opName, op.name),
                               !.opDone = op.done, !.opError = op.error]
                  msg == ProviderErrorMessage(st.error)
              IN IF st.done /\ st.error # Null
                 THEN /\ db' = [db EXCEPT ![j] =
                                 IF @.exists
                                 THEN updateStatus(merged, doc[j], "failed",
                                                   msg, now)
                                 ELSE @]
                      /\ pc' = [pc EXCEPT ![j] = "poll_catch"]
                      /\ Drop(j)
                 ELSE IF st.done
                 THEN /\ db' = [db EXCEPT ![j] =
                                 IF @.exists THEN merged ELSE @]
                      /\ uri' = [uri EXCEPT ![j] = st.videoUri]
                      /\ pc' = [pc EXCEPT ![j] = "hsg_storage"]
                      /\ UNCHANGED <<doc, err>>
                 ELSE /\ db' = [db EXCEPT ![j] =
                                 IF @.exists THEN merged ELSE @]
                      /\ pc' = [pc EXCEPT ![j] = "poll_bucket"]
                      /\ UNCHANGED local
    /\ UNCHANGED <<objects, images, cleanups, now, cur, attempts, reqs>>
    /\ UNCHANGED <<bucket, sent>>

(* a bucket check whose failed listing is thrown to the iteration's catch  *)
PollBucketThrowing(j) ==
    /\ pc[j] = "poll_bucket"
    /\ \E listed \in BOOLEAN :
         LET bucketVideoUri == IF listed THEN checkVideoInBucket(j)
                               ELSE NoLoc
         IN IF bucketVideoUri # NoLoc
            THEN /\ uri' = [uri EXCEPT ![j] = bucketVideoUri]
                 /\ pc' = [pc EXCEPT ![j] = "hsg_storage"]
                 /\ UNCHANGED <<doc, err, attempts>>
            ELSE IF ~listed
            THEN /\ pc' = [pc EXCEPT ![j] = "poll_catch"]
                 /\ UNCHANGED <<doc, uri, err, attempts>>
            ELSE /\ attempts' = [attempts EXCEPT ![j] = @ + 1]
                 /\ pc' = [pc EXCEPT ![j] = "poll_find"]
                 /\ Drop(j)
    /\ UNCHANGED <<store, cur, reqs>>
    /\ UNCHANGED <<bucket, sent>>

(* the bucket check of an iteration; without a candidate the iteration     *)
(* ends: the 10 s wait and attempts++                                      *)
PollBucket(j) ==
    /\ pc[j] = "poll_bucket"
    /\ \E listed \in BOOLEAN :
         LET bucketVideoUri == IF listed THEN checkVideoInBucket(j)
                               ELSE NoLoc
         IN IF bucketVideoUri # NoLoc
            THEN /\ uri' = [uri EXCEPT ![j] = bucketVideoUri]
                 /\ pc' = [pc EXCEPT ![j] = "hsg_storage"]
                 /\ UNCHANGED <<doc, err, attempts>>
            ELSE /\ attempts' = [attempts EXCEPT ![j] = @ + 1]
                 /\ pc' = [pc EXCEPT ![j] = "poll_find"]
                 /\ Drop(j)
    /\ UNCHANGED <<store, cur, reqs>>
    /\ UNCHANGED <<bucket, sent>>

(* the catch of an iteration: on the last attempt mark the job failed and  *)
(* throw, otherwise wait 5 s and run the loop again                        *)
PollCatch(j) ==
    /\ pc[j] = "poll_catch"
    /\ IF attempts[j] >= MaxAttempts - 1
       THEN /\ db' = [db EXCEPT ![j] =
                        IF @.exists
                        THEN updateStatus(@, Load(@), "failed", MsgTimedOut,
                                          now)
                        ELSE @]
            /\ err' = [err EXCEPT ![j] = MsgPollThrown]
            /\ pc' = [pc EXCEPT ![j] = "pvg_catch"]
       ELSE /\ pc' = [pc EXCEPT ![j] = "poll_find"]
            /\ UNCHANGED <<db, err>>
    /\ UNCHANGED <<objects, images, cleanups, now, cur, doc, uri, attempts,
                   reqs>>
    /\ UNCHANGED <<bucket, sent>>

(* cleanupTemporaryImage(gcsUri) for job j's input image: the delete may   *)
(* fail, which is logged and swallowed                                     *)
cleanupTemporaryImage(j, deleted) ==
    /\ cleanups' = [cleanups EXCEPT ![j] = @ + 1]
    /\ images' = IF bucket /\ deleted THEN images \ {j} ELSE images

(* processVideoGeneration's catch: findById, updateStatus('failed') with   *)
(* the message of the caught error, cleanup of the input image, rethrow    *)
ProcessCatch(j) ==
    /\ pc[j] = "pvg_catch"
    /\ IF db[j].exists
       THEN /\ db' = [db EXCEPT ![j] =
                        updateStatus(@, Load(@), "failed", err[j], now)]
            /\ IF db[j].hasImage
               THEN \E deleted \in BOOLEAN : cleanupTemporaryImage(j, deleted)
               ELSE UNCHANGED <<images, cleanups>>
       ELSE UNCHANGED <<db, images, cleanups>>
    /\ pc' = [pc EXCEPT ![j] = "done"]
    /\ Drop(j)
    /\ UNCHANGED <<objects, now, cur, attempts, reqs>>
    /\ UNCHANGED <<bucket, sent>>

----------------------------------------------------------------------------
(* handleSuccessfulGeneration(video, status), run by process p on its copy *)
(* doc[p] of job cur[p] with status.response.videoUri = uri[p]             *)

(* the sweep counting a video whose handler threw *)
ResumeCounting(p, ok) ==
    /\ pc' = [pc EXCEPT ![p] =
                IF p \in Jobs THEN (IF ok THEN "done" ELSE "poll_catch")
                ELSE IF mode[p] = "sweep" THEN "sw_next" ELSE "done"]
    /\ tally' = IF p \in Reqs /\ mode[p] = "sweep"
                THEN [tally EXCEPT ![p].completedCount = @ + 1] ELSE tally
    /\ result' = IF p \in Reqs /\ mode[p] = "force"
                 THEN [result EXCEPT ![p] =
                         IF ok THEN [status |-> "completed"]
                         ELSE [error |-> err[p]]]
                 ELSE result
    /\ Drop(p)
    /\ UNCHANGED <<mode, todo, seen>>

(* where the caller goes on after the handler returned (ok) or threw:      *)
(* pollForCompletion breaks out of the loop / catches in the iteration's   *)
(* catch; the sweep counts and goes to the next video / logs and goes on;  *)
(* forceCompletionCheck returns 'completed' / rethrows                     *)
Resume(p, ok) ==
    /\ pc' = [pc EXCEPT ![p] =
                IF p \in Jobs THEN (IF ok THEN "done" ELSE "poll_catch")
                ELSE IF mode[p] = "sweep" THEN "sw_next" ELSE "done"]
    /\ tally' = IF p \in Reqs /\ mode[p] = "sweep" /\ ok
                THEN [tally EXCEPT ![p].completedCount = @ + 1] ELSE tally
    /\ result' = IF p \in Reqs /\ mode[p] = "force"
                 THEN [result EXCEPT ![p] =
                         IF ok THEN [status |-> "completed"]
                         ELSE [error |-> err[p]]]
                 ELSE result
    /\ Drop(p)
    /\ UNCHANGED <<mode, todo, seen>>

(* videoUri, file.getMetadata(), file.getSignedUrl(), video.video = {...}  *)
HandleResolve(p) ==
    /\ pc[p] = "hsg_storage"
    /\ \E ok \in BOOLEAN :
         IF uri[p] = NoLoc
         THEN /\ err' = [err EXCEPT ![p] = MsgNoUri]
              /\ pc' = [pc EXCEPT ![p] = "hsg_fail"]
              /\ UNCHANGED doc
         ELSE IF ok /\ (\E o \in objects : o.id = uri[p])
         THEN /\ doc' = [doc EXCEPT ![p].video =
                           [gcsUri |-> uri[p],
                            url |-> SignedUrl(uri[p], now + UrlTTL),
                            urlExpiry |-> now + UrlTTL]]
              /\ pc' = [pc EXCEPT ![p] = "hsg_save"]
              /\ UNCHANGED err
         ELSE /\ err' = [err EXCEPT ![p] = MsgStorage]
              /\ pc' = [pc EXCEPT ![p] = "hsg_fail"]
              /\ UNCHANGED doc
    /\ UNCHANGED <<store, cur, uri, attempts, reqs>>
    /\ UNCHANGED <<bucket, sent>>

(* video.updateStatus('completed'): the save persists the artifact and the *)
(* status assigned on the copy; the save of a document whose record was    *)
(* deleted is rejected (DocumentNotFoundError)                             *)
HandleSave(p) ==
    /\ pc[p] = "hsg_save"
    /\ IF ~db[cur[p]].exists
       THEN /\ err' = [err EXCEPT ![p] = MsgNotFound]
            /\ pc' = [pc EXCEPT ![p] = "hsg_fail"]
            /\ UNCHANGED <<db, doc, uri, reqs>>
       ELSE /\ db' = [db EXCEPT ![cur[p]] =
                        updateStatus(
                            [@ EXCEPT !.gcsUri = doc[p].video.gcsUri,
                                      !.url = doc[p].video.url,
                                      !.urlExpiry = doc[p].video.urlExpiry],
                            doc[p], "completed", Null, now)]
            /\ IF doc[p].hasImage
               THEN /\ pc' = [pc EXCEPT ![p] = "hsg_cleanup"]
                    /\ UNCHANGED <<local, reqs>>
               ELSE Resume(p, TRUE)
    /\ UNCHANGED <<objects, images, cleanups, now, cur, attempts>>
    /\ UNCHANGED <<bucket, sent>>

(* a cleanup whose failed deletion is thrown to the handler's catch *)
HandleCleanupEscalating(p) ==
    /\ pc[p] = "hsg_cleanup"
    /\ \E deleted \in BOOLEAN :
         /\ cleanupTemporaryImage(cur[p], deleted)
         /\ IF deleted
            THEN Resume(p, TRUE)
            ELSE /\ err' = [err EXCEPT ![p] = MsgStorage]
                 /\ pc' = [pc EXCEPT ![p] = "hsg_fail"]
                 /\ UNCHANGED <<doc, uri, reqs>>
    /\ UNCHANGED <<db, objects, now, cur, attempts>>
    /\ UNCHANGED <<bucket, sent>>

(* if (video.inputImage && video.inputImage.gcsUri) cleanupTemporaryImage  *)
HandleCleanup(p) ==
    /\ pc[p] = "hsg_cleanup"
    /\ \E deleted \in BOOLEAN : cleanupTemporaryImage(cur[p], deleted)
    /\ Resume(p, TRUE)
    /\ UNCHANGED <<db, objects, now, cur, attempts>>
    /\ UNCHANGED <<bucket, sent>>

(* a handler's catch that removes the record of the job it could not       *)
(* complete                                                                *)
HandleCatchRemoving(p) ==
    /\ pc[p] = "hsg_fail"
    /\ db' = [db EXCEPT ![cur[p]] = NoRecord]
    /\ Resume(p, FALSE)
    /\ UNCHANGED <<objects, images, cleanups, now, cur, attempts>>
    /\ UNCHANGED <<bucket, sent>>

(* the handler's catch: video.updateStatus('failed', error.message), throw *)
HandleCatch(p) ==
    /\ pc[p] = "hsg_fail"
    /\ db' = [db EXCEPT ![cur[p]] =
                IF @.exists
                THEN updateStatus(@, doc[p], "failed", err[p], now)
                ELSE @]
    /\ Resume(p, FALSE)
    /\ UNCHANGED <<objects, images, cleanups, now, cur, attempts>>
    /\ UNCHANGED <<bucket, sent>>

----------------------------------------------------------------------------
(* checkAndCompleteStuckVideos *)

(* Video.find({status: 'processing'}): the documents, in id order *)
RECURSIVE FindProcessing(_)
FindProcessing(j) ==
    IF j > NJobs THEN <<>>
    ELSE (IF db[j].exists /\ db[j].status = "processing"
          THEN <<[job |-> j, doc |-> Load(db[j])]>> ELSE <<>>)
         \o FindProcessing(j + 1)

SweepStart(p) ==
    /\ pc[p] = "idle"
    /\ mode' = [mode EXCEPT ![p] = "sweep"]
    /\ todo' = [todo EXCEPT ![p] = FindProcessing(1)]
    /\ tally' = [tally EXCEPT ![p] =
                   [completedCount |-> 0,
                    totalProcessing |-> Len(FindProcessing(1))]]
    /\ pc' = [pc EXCEPT ![p] = "sw_next"]
    /\ UNCHANGED <<store, cur, local, attempts, result, seen>>
    /\ UNCHANGED <<bucket, sent>>

(* one turn of the for loop up to the handler call, or the return *)
SweepNext(p) ==
    /\ pc[p] = "sw_next"
    /\ IF todo[p] = <<>>
       THEN /\ result' = [result EXCEPT ![p] = tally[p]]
            /\ pc' = [pc EXCEPT ![p] = "done"]
            /\ UNCHANGED <<cur, local, todo, seen>>
       ELSE /\ todo' = [todo EXCEPT ![p] = Tail(@)]
            /\ seen' = [seen EXCEPT ![p] =
                          IF checkVideoInBucket(Head(todo[p]).job) # NoLoc
                          THEN @ \cup {Head(todo[p]).job} ELSE @]
            /\ \E listed \in BOOLEAN :
                 LET video == Head(todo[p])
                     bucketVideoUri ==
                       IF listed THEN checkVideoInBucket(video.job)
                       ELSE NoLoc
                 IN IF bucketVideoUri # NoLoc
                    THEN /\ cur' = [cur EXCEPT ![p] = video.job]
                         /\ doc' = [doc EXCEPT ![p] = video.doc]
                         /\ uri' = [uri EXCEPT ![p] = bucketVideoUri]
                         /\ pc' = [pc EXCEPT ![p] = "hsg_storage"]
                    ELSE UNCHANGED <<cur, doc, uri, pc>>
            /\ UNCHANGED <<err, result>>
    /\ UNCHANGED <<store, attempts, mode, tally>>
    /\ UNCHANGED <<bucket, sent>>

----------------------------------------------------------------------------
(* forceCompletionCheck(videoId) up to the handler call, or the return *)
ForceCheck(p, j) ==
    /\ pc[p] = "idle"
    /\ db[j].exists
    /\ mode' = [mode EXCEPT ![p] = "force"]
    /\ cur' = [cur EXCEPT ![p] = j]
    /\ IF db[j].status # "processing"
       THEN /\ result' = [result EXCEPT ![p] = [status |-> db[j].status]]
            /\ pc' = [pc EXCEPT ![p] = "done"]
            /\ UNCHANGED local
       ELSE \E listed \in BOOLEAN :
              LET bucketVideoUri == IF listed THEN checkVideoInBucket(j)
                                    ELSE NoLoc
              IN IF bucketVideoUri # NoLoc
                 THEN /\ doc' = [doc EXCEPT ![p] = Load(db[j])]
                      /\ uri' = [uri EXCEPT ![p] = bucketVideoUri]
                      /\ pc' = [pc EXCEPT ![p] = "hsg_storage"]
                      /\ UNCHANGED <<err, result>>
                 ELSE /\ result' = [result EXCEPT ![p] =
                                      [status |-> "processing"]]
                      /\ pc' = [pc EXCEPT ![p] = "done"]
                      /\ UNCHANGED local
    /\ UNCHANGED <<store, attempts, todo, tally, seen>>
    /\ UNCHANGED <<bucket, sent>>

----------------------------------------------------------------------------
(* The environment: the provider writes an output object, time passes *)

PutObject(id, video) ==
    /\ \A o \in objects : o.id # id
    /\ objects' = objects \cup {[id |-> id, t |-> now, video |-> video]}
    /\ UNCHANGED <<db, images, cleanups, now, pc, cur, local, attempts, reqs>>
    /\ UNCHANGED <<bucket, sent>>

Tick ==
    /\ now < MaxTime
    /\ now' = now + 1
    /\ UNCHANGED <<db, objects, images, cleanups, pc, cur, local, attempts,
                   reqs>>
    /\ UNCHANGED <<bucket, sent>>

Submission ==
    \/ \E j \in Jobs, img \in BOOLEAN : CreateVideo(j, img)
    \/ \E j \in Jobs : ProcessStart(j)
    \/ \E j \in Jobs : Generate(j)

Polling ==
    \/ \E j \in Jobs : PollFind(j)
    \/ \E j \in Jobs : PollBucket(j)
    \/ \E j \in Jobs : PollCatch(j)
    \/ \E j \in Jobs : ProcessCatch(j)

Completion ==
    \/ \E p \in Procs : HandleResolve(p)
    \/ \E p \in Procs : HandleSave(p)
    \/ \E p \in Procs : HandleCleanup(p)
    \/ \E p \in Procs : HandleCatch(p)

Recovery ==
    \/ \E p \in Reqs : SweepStart(p)
    \/ \E p \in Reqs : SweepNext(p)
    \/ \E p \in Reqs, j \in Jobs : ForceCheck(p, j)

Environment ==
    \/ \E id \in ObjIds, video \in BOOLEAN : PutObject(id, video)
    \/ Tick

(* The program from an empty collection. generateVideo returns the handle  *)
(* under operationName, so operation.name is never stored and the status   *)
(* query of pollForCompletion (PollQuery) is never reached.                *)
Next == Submission \/ Polling \/ Completion \/ Recovery \/ Environment

Spec == Init /\ [][Next]_vars

----------------------------------------------------------------------------
(* pollForCompletion on a record whose operation.name is set: job 1 is     *)
(* processing with a stored handle and its poll loop is about to start     *)
InitHandle ==
    /\ \E img \in BOOLEAN :
         /\ db = [j \in Jobs |->
                    IF j = 1
                    THEN [NewVideo(img) EXCEPT !.status = "processing",
                                               !.startedAt = 0,
                                               !.opName = "op"]
                    ELSE NoRecord]
         /\ images = IF img THEN {1} ELSE {}
    /\ objects = {}
    /\ cleanups = [j \in Jobs |-> 0]
    /\ now = 0
    /\ pc = [p \in Procs |-> IF p = 1 THEN "poll_find" ELSE "idle"]
    /\ cur = [p \in Procs |-> IF p \in Jobs THEN p ELSE 1]
    /\ doc = [p \in Procs |-> NoDoc]
    /\ uri = [p \in Procs |-> NoLoc]
    /\ err = [p \in Procs |-> Null]
    /\ attempts = [j \in Jobs |-> 0]
    /\ mode = [p \in Reqs |-> "none"]
    /\ todo = [p \in Reqs |-> <<>>]
    /\ tally = [p \in Reqs |-> NoTally]
    /\ result = [p \in Reqs |-> NoResult]
    /\ seen = [p \in Reqs |-> {}]
    /\ bucket = TRUE
    /\ sent = [j \in Jobs |-> NoRequest]

NextHandle ==
    \/ Polling
    \/ \E j \in Jobs : PollQuery(j)
    \/ Completion
    \/ Recovery
    \/ Environment

SpecHandle == InitHandle /\ [][NextHandle]_vars

----------------------------------------------------------------------------
(* The recovery surface over jobs whose poll loop is gone: every job is    *)
(* processing, started at some time up to now, and its background task has *)
(* ended; the bucket holds the objects written so far                      *)
BucketContents ==
    {S \in SUBSET [id : ObjIds, t : Times, video : BOOLEAN] :
        \A o, q \in S : o.id = q.id => o = q}

InitSweep ==
    /\ now \in Times
    /\ objects \in {S \in BucketContents : \A o \in S : o.t <= now}
    /\ \E started \in [Jobs -> 0..now], img \in [Jobs -> BOOLEAN] :
         /\ db = [j \in Jobs |->
                    [NewVideo(img[j]) EXCEPT !.status = "processing",
                                             !.startedAt = started[j]]]
         /\ images = {j \in Jobs : img[j]}
    /\ cleanups = [j \in Jobs |-> 0]
    /\ pc = [p \in Procs |-> IF p \in Jobs THEN "done" ELSE "idle"]
    /\ cur = [p \in Procs |-> IF p \in Jobs THEN p ELSE 1]
    /\ doc = [p \in Procs |-> NoDoc]
    /\ uri = [p \in Procs |-> NoLoc]
    /\ err = [p \in Procs |-> Null]
    /\ attempts = [j \in Jobs |-> MaxAttempts]
    /\ mode = [p \in Reqs |-> "none"]
    /\ todo = [p \in Reqs |-> <<>>]
    /\ tally = [p \in Reqs |-> NoTally]
    /\ result = [p \in Reqs |-> NoResult]
    /\ seen = [p \in Reqs |-> {}]
    /\ bucket = TRUE
    /\ sent = [j \in Jobs |-> NoRequest]

NextSweep == Completion \/ Recovery \/ Environment

SpecSweep == InitSweep /\ [][NextSweep]_vars

----------------------------------------------------------------------------
(* The readers of a job: getVideoData / refreshSignedUrl of the service,   *)
(* checkVideoStatus, getVideo and getUserVideos of the controller.  A      *)
(* response records the time at which it was produced.                     *)

(* the document a reader loads: the paths of video.* it reads or assigns *)
LoadVideo(r) ==
    [Load(r) EXCEPT !.video = [gcsUri |-> r.gcsUri, url |-> r.url,
                               urlExpiry |-> r.urlExpiry, views |-> r.views]]

(* getVideoData(videoId, userId) up to the refresh or the view count *)
GetVideoData(p, j, u) ==
    /\ pc[p] = "idle"
    /\ mode' = [mode EXCEPT ![p] = "data"]
    /\ cur' = [cur EXCEPT ![p] = j]
    /\ IF ~db[j].exists
       THEN /\ result' = [result EXCEPT ![p] = [error |-> "Video not found"]]
            /\ pc' = [pc EXCEPT ![p] = "done"]
            /\ UNCHANGED doc
       ELSE IF db[j].user # u /\ db[j].isPrivate
       THEN /\ result' = [result EXCEPT ![p] = [error |-> "Access denied"]]
            /\ pc' = [pc EXCEPT ![p] = "done"]
            /\ UNCHANGED doc
       ELSE IF db[j].url = NoUrl
       THEN /\ result' = [result EXCEPT ![p] =
                            [error |-> "Video data not found"]]
            /\ pc' = [pc EXCEPT ![p] = "done"]
            /\ UNCHANGED doc
       ELSE /\ doc' = [doc EXCEPT ![p] = LoadVideo(db[j])]
            /\ pc' = [pc EXCEPT ![p] =
                        IF db[j].urlExpiry # NoTime /\ now > db[j].urlExpiry
                        THEN "gvd_refresh" ELSE "gvd_views"]
            /\ UNCHANGED result
    /\ UNCHANGED <<store, uri, err, attempts, todo, tally, seen, bucket, sent>>

(* refreshSignedUrl(video): without a location or a bucket the stored URL  *)
(* is returned as it is; otherwise a new URL is signed and saved with its  *)
(* expiry, or the signing error is thrown                                  *)
RefreshSignedUrl(p) ==
    /\ pc[p] = "gvd_refresh"
    /\ IF doc[p].video.gcsUri = NoLoc \/ ~bucket
       THEN /\ pc' = [pc EXCEPT ![p] = "gvd_views"]
            /\ UNCHANGED <<db, doc, result>>
       ELSE \E signed \in BOOLEAN :
              IF signed /\ db[cur[p]].exists
              THEN LET signedUrl ==
                         SignedUrl(doc[p].video.gcsUri, now + UrlTTL)
                   IN /\ db' = [db EXCEPT ![cur[p]].url = signedUrl,
                                          ![cur[p]].urlExpiry = now + UrlTTL]
                      /\ doc' = [doc EXCEPT ![p].video.url = signedUrl,
                                            ![p].video.urlExpiry =
                                                now + UrlTTL]
                      /\ pc' = [pc EXCEPT ![p] = "gvd_views"]
                      /\ UNCHANGED result
              ELSE /\ result' = [result EXCEPT ![p] =
                                   [error |-> MsgStorage]]
                   /\ pc' = [pc EXCEPT ![p] = "done"]
                   /\ doc' = [doc EXCEPT ![p] = NoDoc]
                   /\ UNCHANGED db
    /\ UNCHANGED <<objects, images, cleanups, now, cur, uri, err, attempts,
                   mode, todo, tally, seen, bucket, sent>>

(* video.incrementViews() and the response of getVideoData *)
IncrementViews(p) ==
    /\ pc[p] = "gvd_views"
    /\ IF db[cur[p]].exists
       THEN /\ db' = [db EXCEPT ![cur[p]].views = doc[p].video.views + 1]
            /\ result' = [result EXCEPT ![p] =
                            [redirectUrl |-> doc[p].video.url, at |-> now]]
       ELSE /\ result' = [result EXCEPT ![p] =
                            [error |-> "No document found"]]
            /\ UNCHANGED db
    /\ pc' = [pc EXCEPT ![p] = "done"]
    /\ doc' = [doc EXCEPT ![p] = NoDoc]
    /\ UNCHANGED <<objects, images, cleanups, now, cur, uri, err, attempts,
                   mode, todo, tally, seen, bucket, sent>>

(* a status read that skips the check of the owner *)
CheckVideoStatusAnyUser(p, j, u) ==
    /\ pc[p] = "idle"
    /\ mode' = [mode EXCEPT ![p] = "status"]
    /\ cur' = [cur EXCEPT ![p] = j]
    /\ result' = [result EXCEPT ![p] =
                    IF ~db[j].exists
                    THEN [error |-> "Video not found", by |-> u]
                    ELSE [status |-> db[j].status,
                          summary |-> db[j].status = "completed",
                          url |-> IF db[j].status = "completed"
                                  THEN db[j].url ELSE NoUrl,
                          at |-> now, by |-> u]]
    /\ pc' = [pc EXCEPT ![p] = "done"]
    /\ UNCHANGED <<store, local, attempts, todo, tally, seen, bucket, sent>>

(* VideoController.checkVideoStatus: the owner is sent the status and, for *)
(* a completed job, the summary of video (video.url in it), null otherwise; *)
(* result keeps the caller from the request to the response                *)
CheckVideoStatus(p, j, u) ==
    /\ pc[p] = "idle"
    /\ mode' = [mode EXCEPT ![p] = "status"]
    /\ cur' = [cur EXCEPT ![p] = j]
    /\ result' = [result EXCEPT ![p] =
                    IF ~db[j].exists
                    THEN [error |-> "Video not found", by |-> u]
                    ELSE IF db[j].user # u
                    THEN [error |-> "Access denied", by |-> u]
                    ELSE [status |-> db[j].status,
                          summary |-> db[j].status = "completed",
                          url |-> IF db[j].status = "completed"
                                  THEN db[j].url ELSE NoUrl,
                          at |-> now, by |-> u]]
    /\ pc' = [pc EXCEPT ![p] = "done"]
    /\ UNCHANGED <<store, local, attempts, todo, tally, seen, bucket, sent>>

(* VideoController.getVideo: the owner, or anyone for a public video, is   *)
(* sent the document; a reader who is not the owner counts as a view       *)
GetVideo(p, j, u) ==
    /\ pc[p] = "idle"
    /\ mode' = [mode EXCEPT ![p] = "video"]
    /\ cur' = [cur EXCEPT ![p] = j]
    /\ IF ~db[j].exists
       THEN /\ result' = [result EXCEPT ![p] = [error |-> "Video not found"]]
            /\ UNCHANGED db
       ELSE IF db[j].user # u /\ db[j].isPrivate
       THEN /\ result' = [result EXCEPT ![p] = [error |-> "Access denied"]]
            /\ UNCHANGED db
       ELSE /\ db' = [db EXCEPT ![j].views =
                        IF db[j].user # u THEN @ + 1 ELSE @]
            /\ result' = [result EXCEPT ![p] =
                            [video |-> db'[j], at |-> now]]
    /\ pc' = [pc EXCEPT ![p] = "done"]
    /\ UNCHANGED <<objects, images, cleanups, now, local, attempts, todo,
                   tally, seen, bucket, sent>>

(* VideoController.getUserVideos: the caller's documents *)
GetUserVideos(p, u) ==
    /\ pc[p] = "idle"
    /\ mode' = [mode EXCEPT ![p] = "list"]
    /\ result' = [result EXCEPT ![p] =
                    [videos |-> {db[j] : j \in {k \in Jobs :
                                    db[k].exists /\ db[k].user = u}},
                     at |-> now]]
    /\ pc' = [pc EXCEPT ![p] = "done"]
    /\ UNCHANGED <<store, cur, local, attempts, todo, tally, seen, bucket,
                   sent>>

Reading ==
    \/ \E p \in Reqs, j \in Jobs, u \in Users : GetVideoData(p, j, u)
    \/ \E p \in Reqs : RefreshSignedUrl(p)
    \/ \E p \in Reqs : IncrementViews(p)
    \/ \E p \in Reqs, j \in Jobs, u \in Users : CheckVideoStatus(p, j, u)
    \/ \E p \in Reqs, j \in Jobs, u \in Users : GetVideo(p, j, u)
    \/ \E p \in Reqs, u \in Users : GetUserVideos(p, u)

(* The records a reader can meet once the background tasks have ended: a   *)
(* job completed at time c has the location of a bucket object and a URL   *)
(* signed then, valid until c + UrlTTL                                     *)
CompletedVideo(c, loc, private) ==
    [NewVideo(FALSE) EXCEPT !.status = "completed", !.startedAt = 0,
                            !.completedAt = c, !.gcsUri = loc,
                            !.url = SignedUrl(loc, c + UrlTTL),
                            !.urlExpiry = c + UrlTTL,
                            !.isPrivate = private]

StoredVideos ==
    {NoRecord,
     [NewVideo(FALSE) EXCEPT !.status = "processing", !.startedAt = 0]}
    \cup {CompletedVideo(c, loc, private) :
            c \in Times, loc \in ObjIds, private \in BOOLEAN}

(* the times of the reads: around the expiry of the URLs signed in Times *)
ReadTimes == UrlTTL..(UrlTTL + MaxTime + 1)

(* The service restarted over a stored collection, with or without its    *)
(* storage credentials                                                     *)
InitRead ==
    /\ db \in [Jobs -> StoredVideos]
    /\ objects = {[id |-> db[j].gcsUri, t |-> db[j].completedAt,
                   video |-> TRUE] : j \in {k \in Jobs :
                                              db[k].gcsUri # NoLoc}}
    /\ images = {}
    /\ cleanups = [j \in Jobs |-> 0]
    /\ now \in ReadTimes
    /\ pc = [p \in Procs |-> IF p \in Jobs THEN "done" ELSE "idle"]
    /\ cur = [p \in Procs |-> IF p \in Jobs THEN p ELSE 1]
    /\ doc = [p \in Procs |-> NoDoc]
    /\ uri = [p \in Procs |-> NoLoc]
    /\ err = [p \in Procs |-> Null]
    /\ attempts = [j \in Jobs |-> 0]
    /\ mode = [p \in Reqs |-> "none"]
    /\ todo = [p \in Reqs |-> <<>>]
    /\ tally = [p \in Reqs |-> NoTally]
    /\ result = [p \in Reqs |-> NoResult]
    /\ seen = [p \in Reqs |-> {}]
    /\ bucket \in BOOLEAN
    /\ sent = [j \in Jobs |-> NoRequest]

NextRead == Reading

SpecRead == InitRead /\ [][NextRead]_vars

----------------------------------------------------------------------------
(* deleteVideo(videoId, userId).  result keeps the caller of a deletion    *)
(* from the request to the response.                                       *)

MsgDeleted == "Video deleted successfully"
MsgDenied == "Access denied"

(* a deletion that skips the check of the owner *)
DeleteVideoAnyUser(p, j, u) ==
    /\ pc[p] = "idle"
    /\ mode' = [mode EXCEPT ![p] = "delete"]
    /\ cur' = [cur EXCEPT ![p] = j]
    /\ IF ~db[j].exists
       THEN /\ result' = [result EXCEPT ![p] =
                            [error |-> "Video not found", by |-> u]]
            /\ pc' = [pc EXCEPT ![p] = "done"]
            /\ UNCHANGED doc
       ELSE /\ result' = [result EXCEPT ![p] = [by |-> u]]
            /\ doc' = [doc EXCEPT ![p] = LoadVideo(db[j])]
            /\ pc' = [pc EXCEPT ![p] =
                        IF db[j].gcsUri # NoLoc /\ bucket
                        THEN "del_file" ELSE "del_record"]
    /\ UNCHANGED <<store, uri, err, attempts, todo, tally, seen, bucket, sent>>

(* findById and the check of the owner *)
DeleteVideo(p, j, u) ==
    /\ pc[p] = "idle"
    /\ mode' = [mode EXCEPT ![p] = "delete"]
    /\ cur' = [cur EXCEPT ![p] = j]
    /\ IF ~db[j].exists
       THEN /\ result' = [result EXCEPT ![p] =
                            [error |-> "Video not found", by |-> u]]
            /\ pc' = [pc EXCEPT ![p] = "done"]
            /\ UNCHANGED doc
       ELSE IF db[j].user # u
       THEN /\ result' = [result EXCEPT ![p] =
                            [error |-> MsgDenied, by |-> u]]
            /\ pc' = [pc EXCEPT ![p] = "done"]
            /\ UNCHANGED doc
       ELSE /\ result' = [result EXCEPT ![p] = [by |-> u]]
            /\ doc' = [doc EXCEPT ![p] = LoadVideo(db[j])]
            /\ pc' = [pc EXCEPT ![p] =
                        IF db[j].gcsUri # NoLoc /\ bucket
                        THEN "del_file" ELSE "del_record"]
    /\ UNCHANGED <<store, uri, err, attempts, todo, tally, seen, bucket, sent>>

(* bucket.file(gcsPath).delete(): a failure is logged and swallowed *)
DeleteFile(p) ==
    /\ pc[p] = "del_file"
    /\ \E deleted \in BOOLEAN :
         objects' = IF deleted
                    THEN {o \in objects : o.id # doc[p].video.gcsUri}
                    ELSE objects
    /\ pc' = [pc EXCEPT ![p] = "del_record"]
    /\ UNCHANGED <<db, images, cleanups, now, cur, local, attempts, reqs,
                   bucket, sent>>

(* Video.findByIdAndDelete(videoId) and the response *)
DeleteRecord(p) ==
    /\ pc[p] = "del_record"
    /\ db' = [db EXCEPT ![cur[p]] = NoRecord]
    /\ result' = [result EXCEPT ![p] =
                    [message |-> MsgDeleted, by |-> result[p].by]]
    /\ pc' = [pc EXCEPT ![p] = "done"]
    /\ doc' = [doc EXCEPT ![p] = NoDoc]
    /\ UNCHANGED <<objects, images, cleanups, now, cur, uri, err, attempts,
                   mode, todo, tally, seen, bucket, sent>>

Deleting ==
    \/ \E p \in Reqs, j \in Jobs, u \in Users : DeleteVideo(p, j, u)
    \/ \E p \in Reqs : DeleteFile(p)
    \/ \E p \in Reqs : DeleteRecord(p)

(* A job in processing whose poll loop is about to start, and the          *)
(* deletions its users may request                                         *)
InitDelete ==
    /\ \E img \in BOOLEAN :
         /\ db = [j \in Jobs |->
                    IF j = 1
                    THEN [NewVideo(img) EXCEPT !.status = "processing",
                                               !.startedAt = 0]
                    ELSE NoRecord]
         /\ images = IF img THEN {1} ELSE {}
    /\ objects = {}
    /\ cleanups = [j \in Jobs |-> 0]
    /\ now = 0
    /\ pc = [p \in Procs |-> IF p = 1 THEN "poll_find" ELSE "idle"]
    /\ cur = [p \in Procs |-> IF p \in Jobs THEN p ELSE 1]
    /\ doc = [p \in Procs |-> NoDoc]
    /\ uri = [p \in Procs |-> NoLoc]
    /\ err = [p \in Procs |-> Null]
    /\ attempts = [j \in Jobs |-> 0]
    /\ mode = [p \in Reqs |-> "none"]
    /\ todo = [p \in Reqs |-> <<>>]
    /\ tally = [p \in Reqs |-> NoTally]
    /\ result = [p \in Reqs |-> NoResult]
    /\ seen = [p \in Reqs |-> {}]
    /\ bucket = TRUE
    /\ sent = [j \in Jobs |-> NoRequest]

NextDelete == Polling \/ Completion \/ Deleting \/ Environment

SpecDelete == InitDelete /\ [][NextDelete]_vars

----------------------------------------------------------------------------
(* updateVideo(req, res).  result keeps the caller and the request body    *)
(* from the request to the response.                                       *)

MsgUpdated == "Video updated successfully"
MsgUpdateFailed == "Failed to update video"

(* findById and the check of the owner; title is Absent when the body has  *)
(* none, setPrivate says that the body has isPrivate                       *)
UpdateVideo(p, j, u, title, setPrivate, private) ==
    /\ pc[p] = "idle"
    /\ mode' = [mode EXCEPT ![p] = "update"]
    /\ cur' = [cur EXCEPT ![p] = j]
    /\ IF ~db[j].exists
       THEN /\ result' = [result EXCEPT ![p] =
                            [error |-> "Video not found", by |-> u]]
            /\ pc' = [pc EXCEPT ![p] = "done"]
       ELSE IF db[j].user # u
       THEN /\ result' = [result EXCEPT ![p] =
                            [error |-> MsgDenied, by |-> u]]
            /\ pc' = [pc EXCEPT ![p] = "done"]
       ELSE /\ result' = [result EXCEPT ![p] =
                            [by |-> u, title |-> title,
                             setPrivate |-> setPrivate, private |-> private]]
            /\ pc' = [pc EXCEPT ![p] = "upd_save"]
    /\ UNCHANGED <<store, local, attempts, todo, tally, seen, bucket, sent>>

(* a save that also stores a prompt taken from the body *)
UpdateSaveAnyField(p) ==
    /\ pc[p] = "upd_save"
    /\ IF ~db[cur[p]].exists
       THEN /\ result' = [result EXCEPT ![p] =
                            [error |-> MsgUpdateFailed, by |-> result[p].by]]
            /\ UNCHANGED db
       ELSE /\ db' = [db EXCEPT
                        ![cur[p]].title = IF Truthy(result[p].title)
                                          THEN result[p].title ELSE @,
                        ![cur[p]].prompt = IF Truthy(result[p].title)
                                           THEN result[p].title ELSE @,
                        ![cur[p]].isPrivate = IF result[p].setPrivate
                                              THEN result[p].private ELSE @]
            /\ result' = [result EXCEPT ![p] =
                            [message |-> MsgUpdated, by |-> result[p].by]]
    /\ pc' = [pc EXCEPT ![p] = "done"]
    /\ UNCHANGED <<objects, images, cleanups, now, cur, local, attempts,
                   mode, todo, tally, seen, bucket, sent>>

(* the assignments of the allowed fields and video.save(): the save of a   *)
(* document whose record was deleted is rejected                           *)
UpdateSave(p) ==
    /\ pc[p] = "upd_save"
    /\ IF ~db[cur[p]].exists
       THEN /\ result' = [result EXCEPT ![p] =
                            [error |-> MsgUpdateFailed, by |-> result[p].by]]
            /\ UNCHANGED db
       ELSE /\ db' = [db EXCEPT
                        ![cur[p]].title = IF Truthy(result[p].title)
                                          THEN result[p].title ELSE @,
                        ![cur[p]].isPrivate = IF result[p].setPrivate
                                              THEN result[p].private ELSE @]
            /\ result' = [result EXCEPT ![p] =
                            [message |-> MsgUpdated, by |-> result[p].by]]
    /\ pc' = [pc EXCEPT ![p] = "done"]
    /\ UNCHANGED <<objects, images, cleanups, now, cur, local, attempts,
                   mode, todo, tally, seen, bucket, sent>>

Updating ==
    \/ \E p \in Reqs, j \in Jobs, u \in Users, title \in {Absent, "t1"},
          setPrivate \in BOOLEAN, private \in BOOLEAN :
          /\ setPrivate \/ ~private
          /\ UpdateVideo(p, j, u, title, setPrivate, private)
    \/ \E p \in Reqs : UpdateSave(p)

----------------------------------------------------------------------------
(* The life of stored jobs: job 1 was submitted with a seed and a          *)
(* configuration of its own, is processing and its poll loop is about to   *)
(* start; job 2, when there is one, completed more than a URL lifetime     *)
(* ago or failed; one request of any kind is served meanwhile              *)

SubmittedParameters ==
    [DefaultParameters EXCEPT !.seed = 7, !.movement = "fast",
                              !.durationSeconds = 5]

LifeStart == UrlTTL

EarlierVideos ==
    {NoRecord,
     CompletedVideo(0, 1, TRUE),
     [NewVideo(FALSE) EXCEPT !.status = "failed", !.startedAt = 0,
                             !.errorMessage = MsgSubmit]}

InitLife ==
    /\ \E img \in BOOLEAN, handle \in {Null, "op"},
          earlier \in EarlierVideos :
         /\ db = [j \in Jobs |->
                    IF j = 1
                    THEN [NewVideo(img) EXCEPT
                            !.status = "processing",
                            !.startedAt = LifeStart,
                            !.opName = handle,
                            !.parameters = SubmittedParameters]
                    ELSE earlier]
         /\ images = IF img THEN {1} ELSE {}
         /\ objects = IF earlier.gcsUri # NoLoc
                      THEN {[id |-> earlier.gcsUri, t |-> 0, video |-> TRUE]}
                      ELSE {}
    /\ cleanups = [j \in Jobs |-> 0]
    /\ now = LifeStart + 1
    /\ pc = [p \in Procs |-> IF p = 1 THEN "poll_find"
                              ELSE IF p \in Jobs THEN "done" ELSE "idle"]
    /\ cur = [p \in Procs |-> IF p \in Jobs THEN p ELSE 1]
    /\ doc = [p \in Procs |-> NoDoc]
    /\ uri = [p \in Procs |-> NoLoc]
    /\ err = [p \in Procs |-> Null]
    /\ attempts = [j \in Jobs |-> 0]
    /\ mode = [p \in Reqs |-> "none"]
    /\ todo = [p \in Reqs |-> <<>>]
    /\ tally = [p \in Reqs |-> NoTally]
    /\ result = [p \in Reqs |-> NoResult]
    /\ seen = [p \in Reqs |-> {}]
    /\ bucket = TRUE
    /\ sent = [j \in Jobs |-> NoRequest]

NextLife ==
    \/ Polling
    \/ \E j \in Jobs : PollQuery(j)
    \/ Completion
    \/ Recovery
    \/ Reading
    \/ Updating
    \/ Deleting
    \/ \E id \in ObjIds, video \in BOOLEAN : PutObject(id, video)

SpecLife == InitLife /\ [][NextLife]_vars

----------------------------------------------------------------------------
(* POST /api/videos: the route's validators, VideoController.createVideo   *)
(* and the schema's validators at video.save().  result keeps the request  *)
(* with the response.                                                      *)

(* Program constant: the largest seed *)
MaxSeed == 999999999

ValidAspectRatios == {"16:9", "1:1", "9:16"}
ValidMovements == {"slow", "medium", "fast"}
ValidCameras == {"zoom_in", "zoom_out", "pan_left", "pan_right", "static"}
ValidStyles == {"cinematic", "photorealistic", "anime", "cartoon", "artistic"}
ValidLighting ==
    {"natural", "sunset", "sunrise", "golden_hour", "blue_hour", "studio"}
ValidColorTones == {"warm", "cool", "neutral", "vibrant", "muted"}

(* The requests: form says that parameters arrives as a JSON string in a   *)
(* multipart form, where the route's validators of parameters.* find       *)
(* nothing to check, and file that an image was uploaded; at most          *)
(* MaxConfigFields fields of videoGenerationConfig are given               *)
AllRequests ==
    [videoType : {"text-to-video", "image-to-video", "gif"},
     file : BOOLEAN, form : BOOLEAN,
     aspectRatio : {Absent, "9:16", "4:3"},
     durationSeconds : {NoNumber, 0, 5, 21},
     sampleCount : {NoNumber, 0, 2, 5},
     seed : {NoNumber, 0, 7, MaxSeed + 1},
     movement : {Absent, "fast", "bad"},
     camera : {Absent, "zoom_in", "bad"},
     style : {Absent, "anime", "bad"},
     lighting : {Absent, "studio", "bad"},
     colorTone : {Absent, "warm", "bad"}]

Requests ==
    {req \in AllRequests :
        Cardinality({f \in ConfigFields : req[f] # Absent})
            <= MaxConfigFields}

(* value || fallback *)
OrElse(v, fallback) == IF Truthy(v) THEN v ELSE fallback
NumberOrElse(n, fallback) == IF TruthyNumber(n) THEN n ELSE fallback

(* validateCreateVideo: body('videoType').isIn, and on a parameters object *)
(* the optional isIn / isInt checks of aspectRatio, durationSeconds and     *)
(* sampleCount                                                             *)
RouteValid(req) ==
    /\ req.videoType \in {"text-to-video", "image-to-video"}
    /\ req.form
       \/ /\ req.aspectRatio \in {Absent} \cup ValidAspectRatios
          /\ req.durationSeconds = NoNumber
             \/ (req.durationSeconds >= 1 /\ req.durationSeconds <= 20)
          /\ req.sampleCount = NoNumber
             \/ (req.sampleCount >= 1 /\ req.sampleCount <= 4)

(* the checks createVideo makes itself *)
ControllerValid(req) ==
    /\ req.videoType \in {"text-to-video", "image-to-video"}
    /\ ~(req.videoType = "image-to-video" /\ ~req.file)
    /\ ~(Truthy(req.aspectRatio) /\ req.aspectRatio \notin ValidAspectRatios)
    /\ ~(TruthyNumber(req.durationSeconds)
         /\ (req.durationSeconds < 1 \/ req.durationSeconds > 20))
    /\ ~(TruthyNumber(req.seed) /\ (req.seed < 1 \/ req.seed > MaxSeed))
    /\ ~(Truthy(req.movement) /\ req.movement \notin ValidMovements)
    /\ ~(Truthy(req.camera) /\ req.camera \notin ValidCameras)
    /\ ~(Truthy(req.style) /\ req.style \notin ValidStyles)
    /\ ~(Truthy(req.lighting) /\ req.lighting \notin ValidLighting)
    /\ ~(Truthy(req.colorTone) /\ req.colorTone \notin ValidColorTones)

(* videoData.parameters *)
VideoParameters(req) ==
    [aspectRatio |-> OrElse(req.aspectRatio, "16:9"),
     durationSeconds |-> NumberOrElse(req.durationSeconds, 15),
     sampleCount |-> NumberOrElse(req.sampleCount, 1),
     seed |-> NumberOrElse(req.seed, NoNumber),
     movement |-> OrElse(req.movement, "medium"),
     camera |-> OrElse(req.camera, "static"),
     style |-> OrElse(req.style, "cinematic"),
     lighting |-> OrElse(req.lighting, "natural"),
     colorTone |-> OrElse(req.colorTone, "neutral")]

(* videoSchema.parameters: the enum, min and max validators run by save() *)
SchemaValid(prm) ==
    /\ prm.aspectRatio \in ValidAspectRatios
    /\ prm.durationSeconds >= 1 /\ prm.durationSeconds <= 20
    /\ prm.sampleCount >= 1 /\ prm.sampleCount <= 4
    /\ prm.seed = NoNumber \/ (prm.seed >= 1 /\ prm.seed <= MaxSeed)
    /\ prm.movement \in ValidMovements
    /\ prm.camera \in ValidCameras
    /\ prm.style \in ValidStyles
    /\ prm.lighting \in ValidLighting
    /\ prm.colorTone \in ValidColorTones

(* the response to a request that created no job *)
Rejected(code, req) == [code |-> code, id |-> 0, request |-> req]

(* the request of user u handled by p; j is the id a new record would get  *)
SubmitVideo(p, j, u, req) ==
    /\ pc[p] = "idle"
    /\ pc[j] = "idle"
    /\ ~db[j].exists
    /\ Cardinality({k \in Jobs : db[k].exists}) < MaxSubmissions
    /\ mode' = [mode EXCEPT ![p] = "create"]
    /\ IF ~RouteValid(req) \/ ~ControllerValid(req)
       THEN /\ result' = [result EXCEPT ![p] = Rejected(400, req)]
            /\ UNCHANGED <<db, images>>
       ELSE \E uploaded \in BOOLEAN :
              LET img == req.videoType = "image-to-video" /\ req.file
              IN IF img /\ ~(uploaded /\ bucket)
                 THEN /\ result' = [result EXCEPT ![p] = Rejected(500, req)]
                      /\ UNCHANGED <<db, images>>
                 ELSE /\ images' = IF img THEN images \cup {j} ELSE images
                      /\ IF SchemaValid(VideoParameters(req))
                         THEN /\ db' = [db EXCEPT ![j] =
                                   [NewVideo(img) EXCEPT
                                      !.user = u,
                                      !.parameters = VideoParameters(req)]]
                              /\ result' = [result EXCEPT ![p] =
                                    [code |-> 201, id |-> j, request |-> req]]
                         ELSE /\ result' = [result EXCEPT ![p] =
                                              Rejected(500, req)]
                              /\ UNCHANGED db
    /\ pc' = [pc EXCEPT ![p] = "done",
                        ![j] = IF db'[j].exists THEN "pvg_start" ELSE @]
    /\ UNCHANGED <<objects, cleanups, now, cur, local, attempts, todo, tally,
                   seen, bucket, sent>>

(* Submissions over an empty collection, up to the start of the poll loop *)
Submitting ==
    \E p \in Reqs, j \in Jobs :
        /\ pc[p] = "idle" /\ pc[j] = "idle"
        /\ \E u \in Users, req \in Requests : SubmitVideo(p, j, u, req)

NextCreate ==
    \/ Submitting
    \/ \E j \in Jobs : ProcessStart(j)
    \/ \E j \in Jobs : Generate(j)

SpecCreate == Init /\ [][NextCreate]_vars

----------------------------------------------------------------------------
(* Properties *)

Terminal == {"completed", "failed"}
Artifact(r) == <<r.gcsUri, r.url, r.urlExpiry>>

(* C1: a job whose poll loop used up its attempt budget without the bucket *)
(* ever holding a candidate (the provider is never seen done) is failed    *)
(* with the message "Operation timed out" once its background task ended.  *)
C1_TimedOutAfterBudget ==
    \A j \in Jobs :
        (db[j].exists /\ pc[j] = "done" /\ attempts[j] >= MaxAttempts
         /\ \A o \in objects : ~o.video)
        => (db[j].status = "failed" /\ db[j].errorMessage = MsgTimedOut)

C3_ArtifactIffCompleted ==
    \A j \in Jobs :
        db[j].exists =>
            ((db[j].gcsUri # NoLoc \/ db[j].url # NoUrl)
             <=> db[j].status = "completed")

(* C4: processingInfo.errorMessage is set exactly when the status is       *)
(* failed.                                                                 *)
C4_ErrorIffFailed ==
    \A j \in Jobs :
        db[j].exists =>
            (db[j].errorMessage # Null <=> db[j].status = "failed")

(* C5: every change of a job's status is pending -> processing,            *)
(* processing -> completed or processing -> failed.                        *)
C5_StatusMonotone ==
    [][\A j \in Jobs :
         (db[j].exists /\ db'[j].status # db[j].status)
         => <<db[j].status, db'[j].status>> \in
               {<<"pending", "processing">>, <<"processing", "completed">>,
                <<"processing", "failed">>}]_vars

(* C6: a run of the completion handler that reaches its write on a job     *)
(* already completed with the same location leaves the artifact as it is   *)
(* and does not go on to clean up the input image again.                   *)
C6_HandlerIdempotent ==
    [][\A p \in Procs :
         (pc[p] = "hsg_save" /\ pc'[p] # "hsg_save"
          /\ db[cur[p]].status = "completed"
          /\ db[cur[p]].gcsUri = uri[p])
         => (Artifact(db'[cur[p]]) = Artifact(db[cur[p]])
             /\ pc'[p] # "hsg_cleanup")]_vars

(* C7: a persisted artifact location is never replaced by another one, and *)
(* a write that leaves the job terminal finds it processing.               *)
C7_SingleCompletionWrite ==
    [][\A j \in Jobs :
         /\ (db[j].gcsUri # NoLoc => db'[j].gcsUri = db[j].gcsUri)
         /\ (db[j].exists /\ db'[j] # db[j] /\ db'[j].status \in Terminal)
            => db[j].status = "processing"]_vars

(* C9: a job whose status is processing has its operation.name set.        *)
C9_HandleSetWhileProcessing ==
    \A j \in Jobs :
        (db[j].exists /\ db[j].status = "processing")
        => db[j].opName # Null

(* The objects a scan for job j may take, and the one closest in time to   *)
(* the job's start (the first by name among equally close ones)            *)
Candidates(j) ==
    {o \in objects : o.video /\ o.t >= db[j].startedAt}

Closest(j) ==
    IF ~db[j].exists \/ db[j].startedAt = NoTime \/ Candidates(j) = {}
    THEN NoLoc
    ELSE (CHOOSE o \in Candidates(j) :
            \A q \in Candidates(j) :
                o.t < q.t \/ (o.t = q.t /\ o.id <= q.id)).id

(* what the completion handler of a poll loop does once the scan handed it *)
(* a location: with the storage calls succeeding it writes completed with  *)
(* that location and the loop ends                                         *)
PollCompletes(j) ==
    /\ (pc[j] \in {"hsg_storage", "hsg_save"} /\ pc'[j] \in {"hsg_storage", "hsg_save"})
       => uri'[j] = uri[j]
    /\ (pc[j] = "hsg_save" /\ pc'[j] # "hsg_save")
       => /\ db'[j].status = "completed"
          /\ db'[j].gcsUri = uri[j]
          /\ pc'[j] \in {"hsg_cleanup", "done"}
    /\ (pc[j] = "hsg_cleanup" /\ pc'[j] # "hsg_cleanup") => pc'[j] = "done"

SweepAlone(p) ==
    /\ mode[p] = "sweep"
    /\ pc[p] = "done"
    /\ \A q \in Reqs \ {p} : pc[q] = "idle"

Untouched(j) ==
    /\ db[j].status = "processing"
    /\ Artifact(db[j]) = Artifact(NoRecord)
    /\ db[j].errorMessage = Null
    /\ db[j].completedAt = NoTime

ResponseUrls(res) ==
    (IF "redirectUrl" \in DOMAIN res THEN {res.redirectUrl} ELSE {})
    \cup (IF "url" \in DOMAIN res THEN {res.url} ELSE {})
    \cup (IF "video" \in DOMAIN res THEN {res.video.url} ELSE {})
    \cup (IF "videos" \in DOMAIN res THEN {v.url : v \in res.videos} ELSE {})

(* C11: the URL that getVideoData returns is the one persisted for the job *)
(* and is valid at the time of the response: an expired URL was replaced   *)
(* by a newly signed one with a later expiry, a valid one was kept.        *)
C11_ExpiredUrlRefreshed ==
    \A p \in Reqs :
        (mode[p] = "data" /\ pc[p] = "done"
         /\ "redirectUrl" \in DOMAIN result[p])
        => LET u == result[p].redirectUrl
           IN /\ u[2] >= result[p].at
              /\ db[cur[p]].url = u
              /\ db[cur[p]].urlExpiry = u[2]

(* C12: no response of a reader carries a URL whose expiry is earlier than *)
(* the time of the read.                                                   *)
C12_NoExpiredUrlServed ==
    \A p \in Reqs :
        (pc[p] = "done" /\ "at" \in DOMAIN result[p])
        => \A u \in ResponseUrls(result[p]) \ {NoUrl} :
              u[2] >= result[p].at

(* C13: generateVideo either succeeds, and the task enters                 *)
(* pollForCompletion with no error in flight, or fails, and its error is   *)
(* thrown to processVideoGeneration's catch, which marks the job failed    *)
(* with the error's message and ends the task: the task never enters       *)
(* pollForCompletion (no status query, no bucket scan, attempts untouched) *)
(* and, once ended, stays ended.                                           *)
C13_SubmissionFailsFast ==
    [][\A j \in Jobs :
         /\ (pc[j] = "pvg_gen" /\ pc'[j] # "pvg_gen")
            => \/ /\ pc'[j] = "poll_find"
                  /\ err'[j] = Null
               \/ /\ pc'[j] = "pvg_catch"
                  /\ err'[j] = MsgSubmit
                  /\ db'[j] = db[j]
         /\ (pc[j] = "pvg_catch" /\ pc'[j] # "pvg_catch")
            => /\ pc'[j] = "done"
               /\ attempts'[j] = attempts[j]
               /\ db[j].exists
                  => /\ db'[j].status = "failed"
                     /\ db'[j].errorMessage = err[j]
         /\ pc[j] = "done" => pc'[j] = "done"]_vars

(* a job whose submission failed: failed with generateVideo's message, no  *)
(* poll iteration made                                                     *)
C13_Witness ==
    \E j \in Jobs :
        /\ pc[j] = "done"
        /\ attempts[j] = 0
        /\ db[j].status = "failed"
        /\ db[j].errorMessage = MsgSubmit

(* C14: every iteration of pollForCompletion that ends with the loop going *)
(* round again, the ones that ended in an exception included, has used up  *)
(* one attempt, so that the loop makes at most MaxAttempts iterations.     *)
C14_BudgetIsCeiling ==
    [][\A j \in Jobs :
         (pc[j] \in {"poll_bucket", "poll_catch"} /\ pc'[j] = "poll_find")
         => attempts'[j] = attempts[j] + 1]_vars

(* C15: a poll loop that is at its catch with the record of its job gone   *)
(* makes no further iteration; a record that is gone is not written and    *)
(* not created again.                                                      *)
C15_OrphanLoopStops ==
    [][\A j \in Jobs :
         /\ (pc[j] = "poll_catch" /\ ~db[j].exists) => pc'[j] # "poll_find"
         /\ (pc[j] # "idle" /\ ~db[j].exists) => db'[j] = db[j]]_vars

C17_TransientErrorsSwallowed ==
    [][\A j \in Jobs :
         /\ (pc[j] = "poll_query" /\ pc'[j] # "poll_query")
            => \/ /\ pc'[j] = "poll_bucket"
                  /\ db'[j].status = db[j].status
                  /\ db'[j].errorMessage = db[j].errorMessage
                  /\ attempts'[j] = attempts[j]
               \/ /\ pc'[j] = "hsg_storage"
                  /\ db'[j].opDone /\ db'[j].opError = Null
                  /\ db'[j].status = db[j].status
               \/ /\ pc'[j] = "poll_catch"
                  /\ db'[j].opDone /\ db'[j].opError # Null
         /\ (pc[j] = "poll_bucket" /\ pc'[j] # "poll_bucket")
            => /\ db'[j] = db[j]
               /\ \/ /\ pc'[j] = "poll_find"
                     /\ attempts'[j] = attempts[j] + 1
                  \/ /\ pc'[j] = "hsg_storage"
                     /\ attempts'[j] = attempts[j]
                     /\ uri'[j] # NoLoc]_vars

(* a poll loop that ended an iteration without a result although the       *)
(* bucket held a candidate, the job still processing                       *)
C17_Witness ==
    \E j \in Jobs :
        /\ pc[j] = "poll_find"
        /\ attempts[j] = 1
        /\ db[j].status = "processing"
        /\ db[j].opName # Null
        /\ ~db[j].opDone
        /\ \E o \in objects : o.video /\ o.t = 0

(* C18: the handler reaches the cleanup of the input image only after it   *)
(* has written completed with the artifact, and the cleanup, whether the   *)
(* image is deleted or the deletion fails, writes nothing to the record    *)
(* and returns to the caller as a success: the poll loop ends, the sweep   *)
(* counts the job, the force check answers 'completed'.                    *)
C18_CleanupNeverFails ==
    [][\A p \in Procs :
         /\ (pc[p] = "hsg_save" /\ pc'[p] = "hsg_cleanup")
            => /\ db'[cur[p]].status = "completed"
               /\ db'[cur[p]].gcsUri = uri[p]
         /\ (pc[p] = "hsg_cleanup" /\ pc'[p] # "hsg_cleanup")
            => /\ db' = db
               /\ p \in Jobs => pc'[p] = "done"
               /\ (p \in Reqs /\ mode[p] = "force")
                  => /\ pc'[p] = "done"
                     /\ result'[p] = [status |-> "completed"]
               /\ (p \in Reqs /\ mode[p] = "sweep")
                  => /\ pc'[p] = "sw_next"
                     /\ tally'[p].completedCount =
                            tally[p].completedCount + 1]_vars

(* a job completed by its poll loop whose input image is still in storage  *)
(* after the one cleanup made for it                                       *)
C18_Witness ==
    \E j \in Jobs :
        /\ pc[j] = "done"
        /\ db[j].status = "completed"
        /\ db[j].gcsUri # NoLoc
        /\ cleanups[j] = 1
        /\ j \in images
        /\ \A p \in Reqs : pc[p] = "idle"

(* what the contract calls a precondition error of a request *)
PreconditionError(req) ==
    \/ req.videoType \notin {"text-to-video", "image-to-video"}
    \/ req.videoType = "image-to-video" /\ ~req.file
    \/ req.aspectRatio \notin {Absent} \cup ValidAspectRatios
    \/ req.durationSeconds # NoNumber
       /\ (req.durationSeconds < 1 \/ req.durationSeconds > 20)
    \/ req.seed # NoNumber /\ (req.seed < 1 \/ req.seed > MaxSeed)
    \/ req.sampleCount # NoNumber
       /\ (req.sampleCount < 1 \/ req.sampleCount > 4)
    \/ req.movement \notin {Absent} \cup ValidMovements
    \/ req.camera \notin {Absent} \cup ValidCameras
    \/ req.style \notin {Absent} \cup ValidStyles
    \/ req.lighting \notin {Absent} \cup ValidLighting
    \/ req.colorTone \notin {Absent} \cup ValidColorTones

(* C19: a request with a precondition error is answered without a job      *)
(* having been created for it, and the parameters of every stored job are  *)
(* inside the ranges.                                                      *)
C19_InvalidRequestRejected ==
    /\ \A p \in Reqs :
         (mode[p] = "create" /\ pc[p] = "done"
          /\ PreconditionError(result[p].request))
         => (result[p].code # 201 /\ result[p].id = 0)
    /\ \A j \in Jobs : db[j].exists => SchemaValid(db[j].parameters)

(* C20: a stored operation handle is never replaced: every step of every   *)
(* operation leaves operation.name of a record that has one as it is, the  *)
(* merge of a status reply included, and none takes a job whose handle is  *)
(* set back to the submission steps of processVideoGeneration.             *)
C20_HandleNeverChanges ==
    [][\A j \in Jobs :
         (db[j].exists /\ db[j].opName # Null)
         => /\ db'[j].exists => db'[j].opName = db[j].opName
            /\ pc'[j] \notin {"pvg_start", "pvg_gen"}]_vars

(* a status reply has been merged into the operation of job 1 and the      *)
(* handle the job started with is still stored                             *)
C20_Witness ==
    /\ db[1].exists
    /\ db[1].opDone
    /\ db[1].opName = "op"

(* C21: checkVideoStatus answers "Video not found" for a missing job and   *)
(* "Access denied" for a caller who is not the owner; the owner is sent    *)
(* the stored status, with a video summary exactly when it is available    *)
(* and never for a job that is not completed; the record is left as it is. *)
C21_StatusOwnerScopedReadOnly ==
    [][\A p \in Reqs :
         (pc[p] = "idle" /\ pc'[p] = "done" /\ mode'[p] = "status")
         => LET j == cur'[p]
                r == result'[p]
            IN /\ db' = db
               /\ ~db[j].exists
                    => "error" \in DOMAIN r /\ r.error = "Video not found"
               /\ (db[j].exists /\ db[j].user # r.by)
                    => "error" \in DOMAIN r /\ r.error = "Access denied"
               /\ (db[j].exists /\ db[j].user = r.by)
                    => /\ "error" \notin DOMAIN r
                       /\ r.status = db[j].status
                       /\ r.summary => db[j].status = "completed"]_vars

(* the owner has been sent the status of a job that is still processing,   *)
(* without a summary                                                       *)
C21_Witness ==
    \E p \in Reqs :
        /\ mode[p] = "status" /\ pc[p] = "done"
        /\ "status" \in DOMAIN result[p]
        /\ result[p].status = "processing"
        /\ ~result[p].summary
        /\ result[p].by = db[cur[p]].user

(* C22: checkVideoInBucket returns the location of the earliest listed     *)
(* video object created at or after the job's start, the first listed      *)
(* among equally early ones, and null when there is none, when the job has *)
(* no start time or no record; a caller whose listing failed is handed     *)
(* null and goes on without an error.                                      *)
C22_ScanReturnsEarliest ==
    [][/\ \A j \in Jobs : checkVideoInBucket(j) = Closest(j)
       /\ \A p \in Procs :
            (uri[p] = NoLoc /\ uri'[p] # NoLoc)
            => /\ pc'[p] = "hsg_storage"
               /\ uri'[p] = Closest(cur'[p])
       /\ \A j \in Jobs :
            (pc[j] = "poll_bucket" /\ pc'[j] \notin {"poll_bucket",
                                                     "hsg_storage"})
            => pc'[j] = "poll_find" /\ err'[j] = Null]_vars

(* a scan took the earlier of two candidates created at different times,   *)
(* while a job without a start time has no candidate at all                *)
C22_Witness ==
    /\ \E p \in Procs :
         /\ pc[p] = "hsg_storage"
         /\ \E o, q \in Candidates(cur[p]) : o.t < q.t /\ uri[p] = o.id
    /\ \E j \in Jobs : ~db[j].exists /\ checkVideoInBucket(j) = NoLoc

(* C23: the parameters of the request built for a job always carry         *)
(* aspectRatio, durationSeconds, sampleCount, storageUri and enhancePrompt; *)
(* they carry seed exactly when the job has one, and a field of            *)
(* videoGenerationConfig exactly when the job's value is not the default.  *)
C23_RequestParameters ==
    \A j \in Jobs :
        sent[j] # NoRequest
        => LET prm == db[j].parameters
           IN /\ {"aspectRatio", "durationSeconds", "sampleCount",
                   "storageUri", "enhancePrompt"} \subseteq sent[j].keys
              /\ "seed" \in sent[j].keys <=> prm.seed # NoNumber
              /\ "seed" \in sent[j].keys => sent[j].seed = prm.seed
              /\ \A f \in ConfigFields :
                    f \in sent[j].config <=> prm[f] # DefaultParameters[f]

(* a request was built for a job that has a seed and whose configuration   *)
(* departs from the defaults in some fields but not in all                 *)
C23_Witness ==
    \E j \in Jobs :
        /\ db[j].exists
        /\ "seed" \in sent[j].keys
        /\ sent[j].config # {}
        /\ sent[j].config # ConfigFields

(* C24: once a job is stored, no step changes its prompt, its video type,  *)
(* its input image reference or its generation parameters; an update       *)
(* writes title and isPrivate and nothing else.                            *)
C24_InputsNeverChange ==
    [][\A j \in Jobs :
         (db[j].exists /\ db'[j].exists)
         => /\ db'[j].prompt = db[j].prompt
            /\ db'[j].videoType = db[j].videoType
            /\ db'[j].hasImage = db[j].hasImage
            /\ db'[j].parameters = db[j].parameters
            /\ (\E p \in Reqs : pc[p] = "upd_save" /\ pc'[p] = "done")
               => db'[j] = [db[j] EXCEPT !.title = db'[j].title,
                                         !.isPrivate = db'[j].isPrivate]]_vars

(* the owner's update of title and isPrivate was saved on a job that the   *)
(* orchestrator has completed meanwhile                                    *)
C24_Witness ==
    /\ \E p \in Reqs :
         /\ mode[p] = "update" /\ pc[p] = "done"
         /\ "message" \in DOMAIN result[p]
    /\ db[1].exists
    /\ db[1].title = "t1"
    /\ ~db[1].isPrivate
    /\ db[1].status = "completed"
    /\ db[1].parameters = SubmittedParameters

(* C25: a record leaves the collection only in the last step of a          *)
(* deleteVideo issued by the job's owner; every other step keeps every     *)
(* record, and a failed job keeps an error message for as long as it is    *)
(* stored.                                                                 *)
C25_OnlyOwnerDeletes ==
    [][\A j \in Jobs :
         /\ (db[j].exists /\ ~db'[j].exists)
            => \E p \in Reqs :
                 /\ mode[p] = "delete"
                 /\ pc[p] = "del_record" /\ pc'[p] = "done"
                 /\ cur[p] = j
                 /\ result[p].by = db[j].user
         /\ (db[j].exists /\ db[j].status = "failed" /\ db'[j].exists)
            => db'[j].errorMessage # Null]_vars

(* the task of job 1 has ended with the job failed and its message stored, *)
(* and the owner's deletion has removed job 2                              *)
C25_Witness ==
    /\ pc[1] = "done"
    /\ db[1].exists
    /\ db[1].status = "failed"
    /\ db[1].errorMessage # Null
    /\ \E p \in Reqs :
         /\ mode[p] = "delete" /\ pc[p] = "done" /\ cur[p] = 2
         /\ "message" \in DOMAIN result[p]
         /\ ~db[2].exists

(* C26: no two jobs are completed with the same artifact location.         *)
C26_ArtifactsDistinct ==
    \A j, k \in Jobs :
        (j # k /\ db[j].exists /\ db[k].exists
         /\ db[j].status = "completed" /\ db[k].status = "completed")
        => db[j].gcsUri # db[k].gcsUri

(* C27: once the background task of a job has ended, the job, if its       *)
(* record is still stored, is completed or failed.                         *)
C27_EndedTaskIsTerminal ==
    \A j \in Jobs :
        (pc[j] = "done" /\ db[j].exists) => db[j].status \in Terminal

(* C28: a job with an input image that has reached completed or failed,    *)
(* with every process that worked on it finished, has had                  *)
(* cleanupTemporaryImage called for its image.                             *)
C28_TerminalJobCleaned ==
    \A j \in Jobs :
        (db[j].exists /\ db[j].hasImage /\ db[j].status \in Terminal
         /\ pc[j] = "done"
         /\ \A p \in Reqs : pc[p] \in {"idle", "done"})
        => cleanups[j] > 0

(* C29: a forced check of a job that is not processing, or for which the   *)
(* scan finds nothing, returns the status of the job and writes nothing;   *)
(* it goes on to the completion handler only for a processing job with a   *)
(* candidate, and when it returns 'completed' the stored status is         *)
(* completed.                                                              *)
C29_ForceCheckFrame ==
    [][\A p \in Reqs :
         mode'[p] = "force"
         => LET j == cur'[p]
            IN /\ (pc[p] = "idle" /\ pc'[p] = "done")
                  => /\ db' = db
                     /\ result'[p].status = db[j].status
               /\ (pc[p] = "idle" /\ pc'[p] = "hsg_storage")
                  => /\ db' = db
                     /\ db[j].status = "processing"
                     /\ Closest(j) # NoLoc
               /\ (pc[p] # "done" /\ pc'[p] = "done"
                   /\ "status" \in DOMAIN result'[p]
                   /\ result'[p].status = "completed")
                  => db'[j].status = "completed"]_vars

(* C30: processingInfo.startedAt is unset exactly while the job is         *)
(* pending, and once set no step changes it.                               *)
C30_StartedAtSetOnce ==
    [][\A j \in Jobs :
         db[j].exists
         => /\ db[j].status = "pending" <=> db[j].startedAt = NoTime
            /\ (db[j].startedAt # NoTime /\ db'[j].exists)
               => db'[j].startedAt = db[j].startedAt]_vars

(* a job that started at time 0 was written completed or failed at a later *)
(* time and still has its start time                                       *)
C30_Witness ==
    \E j \in Jobs :
        /\ db[j].exists
        /\ db[j].status \in Terminal
        /\ db[j].startedAt = 0
        /\ now > 0
        /\ db[j].completedAt > 0 \/ db[j].errorMessage # Null

====
